---- MODULE Spec2Model ----
(***************************************************************************)
(* DevSync (src/github_project_tool.py): backup of a developer's           *)
(* configuration into a Backup Root, packaging of the Backup Root into     *)
(* timestamped archives, and restore of an archive.                        *)
(*                                                                         *)
(* A path is a sequence of names relative to the user's home directory.    *)
(* The contents of a text file are a sequence of lines.                    *)
(***************************************************************************)
EXTENDS Integers, Sequences, FiniteSets, TLC

VARIABLES
    host,       \* the machine: platform, source files, results of commands
    files,      \* regular files under ~/.devsync/backups: path -> contents
    dirs,       \* directories that exist under ~/.devsync (and itself)
    zips,       \* archives in ~/.devsync and received ones: name -> entries
    now,        \* the clock, in ticks
    pc,         \* position of the running process in main ("idle": none)
    args,       \* parsed command line of the running (or last) process
    ran,        \* collector -> its outcome in the running (or last) process
    written,    \* paths written by the running (or last) process
    installs,   \* commands run by restore_from_package in that process
    ret,        \* what restore_from_package returned in that process
    exit,       \* exit status of the last process
    runs,       \* processes started so far
    made,       \* backup invocations that ran to their end so far
    orig,       \* archive name -> the Backup Root's files when it was packaged
    startEmpty, \* whether the Backup Root held nothing when the process began
    faults      \* I/O faults so far

vars == <<host, files, dirs, zips, now, pc, args, ran, written, installs,
          ret, exit, runs, made, orig, startEmpty, faults>>

(* ------------------------------ bounds -------------------------------- *)

MaxRuns == 2

MaxClock == 2

TicksPerSecond == 2

MaxFaults == 1

(* ----------------------- generic helpers ------------------------------ *)

Empty == [p \in {} |-> <<>>]

Put(f, p, d) == [q \in DOMAIN f \cup {p} |-> IF q = p THEN d ELSE f[q]]

Range(s) == {s[i] : i \in DOMAIN s}

IsPrefix(a, b) == Len(a) <= Len(b) /\ SubSeq(b, 1, Len(a)) = a

RECURSIVE SetToSeq(_)
SetToSeq(S) ==
    IF S = {} THEN <<>>
    ELSE LET x == CHOOSE y \in S : TRUE IN <<x>> \o SetToSeq(S \ {x})

(* ------------------------- DevSync.__init__ --------------------------- *)

config_dir == <<".devsync">>

backup_dir == config_dir \o <<"backups">>

supported_tools ==
    {"vscode", "git", "ssh", "npm", "pip", "cargo", "brew", "apt",
     "dotfiles", "bookmarks", "fonts"}

\* The constructor: mkdir(exist_ok=True) of the two directories.
Construct(ds) == ds \cup {config_dir, backup_dir}

(* ------------------------------ host ---------------------------------- *)

\* Contents of a source file of the host.
Data(name) == <<"data of " \o name>>

\* Path.name of a directory entry kept as stem and suffix.
Name(e) == e.stem \o e.suffix

Entry(stem, suffix) == [stem |-> stem, suffix |-> suffix]

\* run_command: (returncode == 0, stdout); a spawn fault gives (False, "").
run_command(h, command) ==
    IF command \in DOMAIN h.cmd THEN h.cmd[command] ELSE [ok |-> FALSE, out |-> <<>>]

Ok(out) == [ok |-> TRUE, out |-> out]

Failed == [ok |-> FALSE, out |-> <<>>]

(* ---------------------- file operations of a collector ---------------- *)

Mkdir(p) == [kind |-> "mkdir", path |-> p, data |-> <<>>, guarded |-> FALSE]

Write(p, d) == [kind |-> "write", path |-> p, data |-> d, guarded |-> FALSE]

\* A write inside try: ... except: pass.
TryWrite(p, d) == [kind |-> "write", path |-> p, data |-> d, guarded |-> TRUE]

ApplyOp(fs, op) ==
    IF op.kind = "mkdir"
    THEN [fs EXCEPT !.dirs = @ \cup {op.path}]
    ELSE [fs EXCEPT !.files = Put(@, op.path, op.data),
                    !.written = @ \cup {op.path}]

RECURSIVE ApplyOps(_, _)
ApplyOps(fs, ops) ==
    IF ops = <<>> THEN fs ELSE ApplyOps(ApplyOp(fs, Head(ops)), Tail(ops))

Without(ops, n) == SubSeq(ops, 1, n - 1) \o SubSeq(ops, n + 1, Len(ops))

\* The places where an I/O fault can strike: the copies and writes.
FaultPoints(ops) == {0} \cup {i \in DOMAIN ops : ops[i].kind = "write"}

\* The operations carried out when operation n faults (n = 0: none does).
\* A fault inside try/except skips that write; any other fault raises, and
\* the operations after it are not reached.
Performed(ops, n) ==
    IF n = 0 THEN ops
    ELSE IF ops[n].guarded THEN Without(ops, n)
    ELSE SubSeq(ops, 1, n - 1)

Raises(ops, n) == n # 0 /\ ~ops[n].guarded

(* ------------------------------ JSON ---------------------------------- *)

\* JSON text is kept as its tokens: <<"{", k1, .., "}">> is an object with
\* those keys, <<"[", x1, .., "]">> an array; anything else does not parse.
json_loads(text) ==
    IF Len(text) >= 2 /\ text[1] = "{" /\ text[Len(text)] = "}"
    THEN [ok |-> TRUE, kind |-> "object", items |-> SubSeq(text, 2, Len(text) - 1)]
    ELSE IF Len(text) >= 2 /\ text[1] = "[" /\ text[Len(text)] = "]"
    THEN [ok |-> TRUE, kind |-> "array", items |-> SubSeq(text, 2, Len(text) - 1)]
    ELSE [ok |-> FALSE, kind |-> "none", items |-> <<>>]

json_dump_list(items) == <<"[">> \o items \o <<"]">>

json_dump_object(items) == <<"{">> \o items \o <<"}">>

json_dump(v) ==
    IF v.kind = "object" THEN json_dump_object(v.items) ELSE json_dump_list(v.items)

\* str.strip() of a command's one-line output.
strip(out) == IF out = <<>> THEN "" ELSE out[1]

(* --------------------------- collectors ------------------------------- *)

\* Each collector is given as the sequence of directory creations, copies
\* and writes it performs on this host, in program order, and its result.

vscode_paths ==
    [windows |-> <<"AppData", "Roaming", "Code", "User">>,
     darwin  |-> <<"Library", "Application Support", "Code", "User">>,
     linux   |-> <<".config", "Code", "User">>]

settings_files == <<"settings.json", "keybindings.json", "snippets">>

vscode_found(h) ==
    h.system \in DOMAIN vscode_paths /\ vscode_paths[h.system] \in h.dirs

RECURSIVE vscode_items(_, _, _)
vscode_items(h, bp, items) ==
    IF items = <<>> THEN <<>>
    ELSE LET item == Head(items)
             here ==
                IF item \notin h.vscode THEN <<>>
                ELSE IF item # "snippets" THEN <<Write(bp \o <<item>>, Data(item))>>
                ELSE <<Mkdir(bp \o <<item>>)>>
                     \o [i \in 1..Len(h.snippets) |->
                            Write(bp \o <<item, h.snippets[i]>>, Data(h.snippets[i]))]
         IN here \o vscode_items(h, bp, Tail(items))

\* A variant that creates the subtree before looking for the settings
\* directory.
backup_vscode_settings_eager(h) ==
    LET bp == backup_dir \o <<"vscode">>
        ext == run_command(h, "code --list-extensions")
    IN IF ~vscode_found(h) THEN [ops |-> <<Mkdir(bp)>>, result |-> FALSE]
       ELSE [ops |-> <<Mkdir(bp)>>
                     \o vscode_items(h, bp, settings_files)
                     \o (IF ext.ok THEN <<Write(bp \o <<"extensions.txt">>, ext.out)>>
                         ELSE <<>>),
             result |-> TRUE]

backup_vscode_settings(h) ==
    IF ~vscode_found(h) THEN [ops |-> <<>>, result |-> FALSE]
    ELSE LET bp == backup_dir \o <<"vscode">>
             ext == run_command(h, "code --list-extensions")
         IN [ops |-> <<Mkdir(bp)>>
                     \o vscode_items(h, bp, settings_files)
                     \o (IF ext.ok THEN <<Write(bp \o <<"extensions.txt">>, ext.out)>>
                         ELSE <<>>),
             result |-> TRUE]

backup_git_config(h) ==
    LET bp == backup_dir \o <<"git">>
        name == run_command(h, "git config --global user.name")
        email == run_command(h, "git config --global user.email")
    IN [ops |-> <<Mkdir(bp)>>
                \o (IF ".gitconfig" \in h.home
                    THEN <<Write(bp \o <<".gitconfig">>, Data(".gitconfig"))>> ELSE <<>>)
                \o (IF ".gitignore_global" \in h.home
                    THEN <<Write(bp \o <<".gitignore_global">>, Data(".gitignore_global"))>>
                    ELSE <<>>)
                \o (IF name.ok /\ email.ok
                    THEN <<Write(bp \o <<"user_info.json">>,
                                 json_dump_object(<<strip(name.out), strip(email.out)>>))>>
                    ELSE <<>>),
        result |-> TRUE]

safe_files == <<"config", "known_hosts">>

\* A variant that takes the key files by their stem: ssh_dir.glob("id_*").
pub_keys_by_stem(h) == SetToSeq({e \in h.ssh : e.stem \in {"id_rsa", "id_ed25519"}})

\* ssh_dir.glob("*.pub")
pub_keys(h) == SetToSeq({e \in h.ssh : e.suffix = ".pub"})

manifest == "public_keys_list.txt"

\* The manifest is opened for writing before the loop; each name is written
\* before its key is copied.
RECURSIVE ssh_keys(_, _, _)
ssh_keys(bp, keys, listed) ==
    IF keys = <<>> THEN <<>>
    ELSE LET key == Name(Head(keys))
         IN <<Write(bp \o <<manifest>>, listed \o <<key>>),
              Write(bp \o <<key>>, Data(key))>>
            \o ssh_keys(bp, Tail(keys), listed \o <<key>>)

ssh_safe(h, bp) ==
    LET present == SelectSeq(safe_files, LAMBDA f : \E e \in h.ssh : Name(e) = f)
    IN [i \in 1..Len(present) |-> Write(bp \o <<present[i]>>, Data(present[i]))]

backup_ssh_config(h) ==
    IF ~h.sshdir THEN [ops |-> <<>>, result |-> FALSE]
    ELSE LET bp == backup_dir \o <<"ssh">>
             keys == pub_keys(h)
         IN [ops |-> <<Mkdir(bp)>>
                     \o ssh_safe(h, bp)
                     \o (IF keys # <<>>
                         THEN <<Write(bp \o <<manifest>>, <<>>)>> \o ssh_keys(bp, keys, <<>>)
                         ELSE <<>>),
             result |-> TRUE]

npm_inventory(h, bp) ==
    LET q == run_command(h, "npm list -g --depth=0 --json")
        v == json_loads(q.out)
    IN IF q.ok /\ v.ok /\ v.kind = "object"
       THEN <<TryWrite(bp \o <<"npm_global.json">>, json_dump_list(v.items))>>
       ELSE <<>>

pip_inventory(h, bp) ==
    LET q == run_command(h, "pip list --format=json")
        v == json_loads(q.out)
    IN IF q.ok /\ v.ok
       THEN <<TryWrite(bp \o <<"pip_packages.json">>, json_dump(v))>>
       ELSE <<>>

cargo_inventory(h, bp) ==
    LET q == run_command(h, "cargo install --list")
    IN IF q.ok THEN <<Write(bp \o <<"cargo_packages.txt">>, q.out)>> ELSE <<>>

brew_inventory(h, bp) ==
    IF h.system # "darwin" THEN <<>>
    ELSE LET q == run_command(h, "brew list --formula -1")
             q2 == run_command(h, "brew list --cask -1")
         IN IF ~q.ok THEN <<>>
            ELSE <<Write(bp \o <<"brew_formulae.txt">>, q.out)>>
                 \o (IF q2.ok THEN <<Write(bp \o <<"brew_casks.txt">>, q2.out)>>
                     ELSE <<>>)

backup_package_managers(h) ==
    LET bp == backup_dir \o <<"packages">>
    IN [ops |-> <<Mkdir(bp)>>
                \o npm_inventory(h, bp) \o pip_inventory(h, bp)
                \o cargo_inventory(h, bp) \o brew_inventory(h, bp),
        result |-> TRUE]

dotfiles ==
    <<".bashrc", ".bash_profile", ".zshrc", ".zprofile", ".fish_config",
      ".profile", ".aliases", ".functions", ".vimrc", ".tmux.conf", ".screenrc">>

backup_dotfiles(h) ==
    LET bp == backup_dir \o <<"dotfiles">>
        present == SelectSeq(dotfiles, LAMBDA f : f \in h.home)
    IN [ops |-> <<Mkdir(bp)>>
                \o [i \in 1..Len(present) |-> Write(bp \o <<present[i]>>, Data(present[i]))],
        result |-> TRUE]

(* ------------------------ create_sync_package ------------------------- *)

\* datetime.now().strftime("%Y%m%d_%H%M%S"): the clock cut to whole seconds.
strftime(t) == ToString(t \div TicksPerSecond)

default_output_path(t) ==
    config_dir \o <<"devsync_backup_" \o strftime(t) \o ".zip">>

\* A variant that names a member by its file name alone.
relative_to_name(p, base) == <<p[Len(p)]>>

\* Path.relative_to(self.backup_dir)
relative_to(p, base) == SubSeq(p, Len(base) + 1, Len(p))

metadata_name == <<"metadata.json">>

metadata(h, t) ==
    json_dump_object(<<"created_at " \o ToString(t), "system " \o h.system,
                       "devsync_version 1.2.0", "creator xxwfufu">>)

\* os.walk(self.backup_dir): every regular file below the Backup Root.
walk(fl) == SetToSeq({p \in DOMAIN fl : IsPrefix(backup_dir, p)})

ZipEntry(n, d) == [name |-> n, data |-> d]

\* The entries of the archive: one per walked file, then the metadata.
zip_entries(fl, h, t) ==
    LET found == walk(fl)
    IN [i \in 1..Len(found) |->
            ZipEntry(relative_to(found[i], backup_dir), fl[found[i]])]
       \o <<ZipEntry(metadata_name, metadata(h, t))>>

\* ZipFile(output_path, 'w') creates the file or truncates an existing one.
create_sync_package(zs, fl, h, t) ==
    Put(zs, default_output_path(t), zip_entries(fl, h, t))

(* ------------------------ restore_from_package ------------------------ *)

\* Path(package_path).exists(): an archive, or any other file of the host.
path_exists(zs, h, path) ==
    path \in DOMAIN zs \/ (Len(path) = 1 /\ path[1] \in h.home)

\* The directories ZipFile.extractall creates for a member.
Parents(p) == {SubSeq(p, 1, k) : k \in Len(backup_dir)..(Len(p) - 1)}

\* zipf.extractall(self.backup_dir): the members in archive order, each
\* overwriting what is at its path.
RECURSIVE extractall(_, _)
extractall(fs, entries) ==
    IF entries = <<>> THEN fs
    ELSE LET e == Head(entries)
             target == backup_dir \o e.name
         IN extractall([files |-> Put(fs.files, target, e.data),
                        dirs |-> fs.dirs \cup Parents(target),
                        written |-> fs.written \cup {target}],
                       Tail(entries))

extensions_file == backup_dir \o <<"vscode", "extensions.txt">>

\* f.read().strip().split('\n'), then the lines with ext.strip() non-empty.
extension_lines(text) == SelectSeq(text, LAMBDA l : l # "")

install_command(ext) == "code --install-extension " \o ext

\* The install commands the restorer runs once the archive is extracted.
replay(fl) ==
    IF extensions_file \in DOMAIN fl
    THEN LET exts == extension_lines(fl[extensions_file])
         IN [i \in 1..Len(exts) |-> install_command(exts[i])]
    ELSE <<>>

\* A variant that replays the extension list before it looks for the archive.
restore_replay_first(fs, zs, h, path) ==
    IF ~path_exists(zs, h, path)
    THEN [outcome |-> "missing", fs |-> fs, installs |-> replay(fs.files), ret |-> "False"]
    ELSE IF path \notin DOMAIN zs
    THEN [outcome |-> "raised", fs |-> fs, installs |-> replay(fs.files), ret |-> "none"]
    ELSE LET after == extractall(fs, zs[path])
         IN [outcome |-> "done", fs |-> after, installs |-> replay(after.files),
             ret |-> "True"]

\* outcome: "missing" (returns False), "raised" (not a zip file), "done".
restore_from_package(fs, zs, h, path) ==
    IF ~path_exists(zs, h, path)
    THEN [outcome |-> "missing", fs |-> fs, installs |-> <<>>, ret |-> "False"]
    ELSE IF path \notin DOMAIN zs
    THEN [outcome |-> "raised", fs |-> fs, installs |-> <<>>, ret |-> "none"]
    ELSE LET after == extractall(fs, zs[path])
         IN [outcome |-> "done", fs |-> after, installs |-> replay(after.files),
             ret |-> "True"]

(* ------------------------------- hosts -------------------------------- *)

Commands ==
    {"code --list-extensions", "git config --global user.name",
     "git config --global user.email", "npm list -g --depth=0 --json",
     "pip list --format=json", "cargo install --list",
     "brew list --formula -1", "brew list --cask -1"}

\* What each command prints when it succeeds on the hosts considered.
Stdout ==
    [c \in Commands |->
        CASE c = "code --list-extensions" -> <<"ms-python.python", "", "golang.go">>
          [] c = "git config --global user.name" -> <<"Ada">>
          [] c = "git config --global user.email" -> <<"ada@example.org">>
          [] c = "npm list -g --depth=0 --json" -> <<"{", "typescript", "}">>
          [] c = "pip list --format=json" -> <<"[", "requests 2.0", "]">>
          [] c = "cargo install --list" -> <<"ripgrep v14.1.0:">>
          [] c = "brew list --formula -1" -> <<"wget">>
          [] OTHER -> <<"iterm2">>]

AllOk == [c \in Commands |-> Ok(Stdout[c])]

AllFail == [c \in Commands |-> Failed]

SshEntries ==
    {Entry("config", ""), Entry("known_hosts", ""), Entry("id_rsa", ""),
     Entry("id_rsa", ".pub"), Entry("id_ed25519", ".pub")}

Host(system, vs, home, sshdir, ssh, cmd) ==
    [system |-> system,
     dirs |-> IF vs THEN {vscode_paths[system]} ELSE {},
     vscode |-> IF vs THEN {"settings.json", "snippets"} ELSE {},
     snippets |-> <<"python.json">>,
     home |-> home,
     sshdir |-> sshdir,
     ssh |-> ssh,
     cmd |-> cmd]

Hosts ==
    {Host(system, vs, home, ssh # {}, ssh, cmd) :
        system \in {"linux", "darwin"}, vs \in BOOLEAN,
        home \in SUBSET {".gitconfig", ".bashrc"},
        ssh \in {{}, {Entry("config", ""), Entry("id_rsa", ""), Entry("id_rsa", ".pub")}},
        cmd \in {AllFail, AllOk}}

(* ------------------------------- main --------------------------------- *)

\* argparse's namespace, with the answers the prompts of interactive_backup
\* will get; restore = <<>> stands for an absent --restore.
Args(backup, restore, status, auto, answers) ==
    [backup |-> backup, restore |-> restore, status |-> status, auto |-> auto,
     answers |-> answers]

NoArgs == Args(FALSE, <<>>, FALSE, FALSE, {})

\* The if/elif chain of main.
mode(a) ==
    IF a.backup THEN "backup"
    ELSE IF a.restore # <<>> THEN "restore"
    ELSE IF a.status THEN "status"
    ELSE IF a.auto THEN "auto"
    ELSE "backup"

\* The sets of tool keys answered with yes that are tried.
Answers == {{}, {"vscode", "git", "brew"}, {"ssh", "pip"}, {"cargo", "dotfiles"}}

missing_path == <<"nowhere.zip">>

other_path == <<".bashrc">>

\* --backup with each set of answers, --auto, and no flag at all.
BackupLines ==
    {Args(TRUE, <<>>, FALSE, FALSE, y) : y \in Answers}
    \cup {Args(FALSE, <<>>, FALSE, TRUE, {}), Args(FALSE, <<>>, FALSE, FALSE, {"ssh", "pip"})}

RestoreLines(zs) ==
    {Args(FALSE, p, FALSE, FALSE, {}) : p \in DOMAIN zs \cup {missing_path, other_path}}

CommandLines(zs) ==
    BackupLines \cup RestoreLines(zs) \cup {Args(FALSE, <<>>, TRUE, FALSE, {})}

\* Whether the run calls a collector: always in automatic mode, by the
\* answers in interactive mode.
selected(a, keys) == mode(a) = "auto" \/ a.answers \cap keys # {}

Subtrees == {"vscode", "git", "ssh", "packages", "dotfiles"}

RootEmpty == files = Empty /\ \A c \in Subtrees : backup_dir \o <<c>> \notin dirs

\* A process starts with one of the given command lines: main parses it,
\* constructs DevSync and dispatches.
StartWith(lines) ==
    /\ pc = "idle"
    /\ runs < MaxRuns
    /\ \E a \in lines :
        /\ args' = a
        /\ pc' = CASE mode(a) = "restore" -> "restore"
                   [] mode(a) = "status" -> "status"
                   [] OTHER -> "vscode"
    /\ dirs' = Construct(dirs)
    /\ runs' = runs + 1
    /\ startEmpty' = RootEmpty
    /\ ran' = Empty
    /\ written' = {}
    /\ installs' = <<>>
    /\ ret' = "none"
    /\ exit' = "none"
    /\ UNCHANGED <<host, files, zips, now, made, orig, faults>>

Start == StartWith(CommandLines(zips))

\* One collector call of main or interactive_backup: skipped when not
\* selected; an exception it raises ends the process.
Collect(here, next, keys, c) ==
    /\ pc = here
    /\ IF ~selected(args, keys)
       THEN /\ pc' = next
            /\ UNCHANGED <<files, dirs, written, ran, exit, faults>>
       ELSE \E n \in FaultPoints(c.ops) :
               LET fs == ApplyOps([files |-> files, dirs |-> dirs, written |-> written],
                                  Performed(c.ops, n))
               IN /\ n # 0 => faults < MaxFaults
                  /\ faults' = IF n # 0 THEN faults + 1 ELSE faults
                  /\ files' = fs.files
                  /\ dirs' = fs.dirs
                  /\ written' = fs.written
                  /\ ran' = Put(ran, here, IF Raises(c.ops, n) THEN "raised"
                                           ELSE IF c.result THEN "True" ELSE "False")
                  /\ pc' = IF Raises(c.ops, n) THEN "idle" ELSE next
                  /\ exit' = IF Raises(c.ops, n) THEN "1" ELSE exit
    /\ UNCHANGED <<host, zips, now, args, installs, ret, runs, made, orig, startEmpty>>

Vscode == Collect("vscode", "git", {"vscode"}, backup_vscode_settings(host))

Git == Collect("git", "ssh", {"git"}, backup_git_config(host))

Ssh == Collect("ssh", "packages", {"ssh"}, backup_ssh_config(host))

Packages ==
    Collect("packages", "dotfiles", {"npm", "pip", "cargo"}, backup_package_managers(host))

Dotfiles == Collect("dotfiles", "package", {"dotfiles"}, backup_dotfiles(host))

Package ==
    /\ pc = "package"
    /\ zips' = create_sync_package(zips, files, host, now)
    /\ orig' = Put(orig, default_output_path(now), files)
    /\ made' = made + 1
    /\ pc' = "idle"
    /\ exit' = "0"
    /\ UNCHANGED <<host, files, dirs, now, args, ran, written, installs, ret, runs,
                   startEmpty, faults>>

\* main discards what restore_from_package returns.
Restore ==
    /\ pc = "restore"
    /\ LET r == restore_from_package([files |-> files, dirs |-> dirs, written |-> written],
                                     zips, host, args.restore)
       IN /\ files' = r.fs.files
          /\ dirs' = r.fs.dirs
          /\ written' = r.fs.written
          /\ installs' = r.installs
          /\ ret' = r.ret
          /\ exit' = IF r.outcome = "raised" THEN "1" ELSE "0"
    /\ pc' = "idle"
    /\ UNCHANGED <<host, zips, now, args, ran, runs, made, orig, startEmpty, faults>>

\* show_status only reads.
Status ==
    /\ pc = "status"
    /\ pc' = "idle"
    /\ exit' = "0"
    /\ UNCHANGED <<host, files, dirs, zips, now, args, ran, written, installs, ret,
                   runs, made, orig, startEmpty, faults>>

\* Time passes. The clock is read only by create_sync_package, so time that
\* passes while a process runs is time that passed before it began.
Tick ==
    /\ pc = "idle"
    /\ now < MaxClock
    /\ now' = now + 1
    /\ UNCHANGED <<host, files, dirs, zips, pc, args, ran, written, installs, ret,
                   exit, runs, made, orig, startEmpty, faults>>

\* The archives are carried to a device of the same kind whose ~/.devsync
\* does not exist yet, and on which no process has run.
NewDevice ==
    /\ pc = "idle"
    /\ DOMAIN zips # {}
    /\ dirs # {}
    /\ files' = Empty
    /\ dirs' = {}
    /\ args' = NoArgs
    /\ ran' = Empty
    /\ written' = {}
    /\ installs' = <<>>
    /\ ret' = "none"
    /\ exit' = "none"
    /\ startEmpty' = TRUE
    /\ UNCHANGED <<host, zips, now, pc, runs, made, orig, faults>>

\* An archive made by the tool on another device and copied to this one.
OtherDevice == Host("linux", FALSE, {".gitconfig"}, FALSE, {}, AllFail)

received_path == <<"Downloads", "received.zip">>

Received ==
    zip_entries(ApplyOps([files |-> Empty, dirs |-> {}, written |-> {}],
                         backup_git_config(OtherDevice).ops).files,
                OtherDevice, 0)

\* The device before its first process: a host, what the Backup Root holds
\* and the archives at hand.
InitOn(hs, roots, zs) ==
    /\ host \in hs
    /\ files \in roots
    /\ dirs = UNION {Parents(p) : p \in DOMAIN files}
    /\ zips \in zs
    /\ now = 0
    /\ pc = "idle"
    /\ args = NoArgs
    /\ ran = Empty
    /\ written = {}
    /\ installs = <<>>
    /\ ret = "none"
    /\ exit = "none"
    /\ runs = 0
    /\ made = 0
    /\ orig = Empty
    /\ startEmpty = TRUE
    /\ faults = 0

Archives == {Empty, Put(Empty, received_path, Received)}

Init == InitOn(Hosts, {Empty}, Archives)

Next ==
    \/ Start
    \/ Vscode
    \/ Git
    \/ Ssh
    \/ Packages
    \/ Dotfiles
    \/ Package
    \/ Restore
    \/ Status
    \/ Tick
    \/ NewDevice

Spec == Init /\ [][Next]_vars

(* ------------------ automatic backups on every host ------------------- *)

StartAuto == StartWith({Args(FALSE, <<>>, FALSE, TRUE, {})})

NextAuto ==
    \/ StartAuto
    \/ Vscode
    \/ Git
    \/ Ssh
    \/ Packages
    \/ Dotfiles
    \/ Package
    \/ Tick

InitAuto == InitOn(Hosts, {Empty}, {Empty})

SpecAuto == InitAuto /\ [][NextAuto]_vars

(* ------------- the SSH collector on every source directory ------------ *)

SshHosts ==
    {Host("linux", FALSE, {}, sshdir, ssh, AllFail) :
        sshdir \in BOOLEAN, ssh \in SUBSET SshEntries} \ 
    {Host("linux", FALSE, {}, FALSE, ssh, AllFail) : ssh \in (SUBSET SshEntries) \ {{}}}

StartBackup == StartWith(BackupLines)

NextBackup ==
    \/ StartBackup
    \/ Vscode
    \/ Git
    \/ Ssh
    \/ Packages
    \/ Dotfiles
    \/ Package
    \/ Tick

InitSsh == InitOn(SshHosts, {Empty}, {Empty})

SpecSsh == InitSsh /\ [][NextBackup]_vars

(* ------- the package-manager collector on every query outcome --------- *)

Unparsable == <<"npm ERR!">>

PkgResults ==
    {[c \in Commands |->
        CASE c = "npm list -g --depth=0 --json" -> npm
          [] c = "pip list --format=json" -> pip
          [] c = "cargo install --list" -> IF cargo THEN Ok(Stdout[c]) ELSE Failed
          [] c = "brew list --formula -1" -> IF formula THEN Ok(Stdout[c]) ELSE Failed
          [] c = "brew list --cask -1" -> IF cask THEN Ok(Stdout[c]) ELSE Failed
          [] OTHER -> Failed] :
        npm \in {Failed, Ok(Unparsable), Ok(Stdout["npm list -g --depth=0 --json"])},
        pip \in {Failed, Ok(Unparsable), Ok(Stdout["pip list --format=json"])},
        cargo \in BOOLEAN, formula \in BOOLEAN, cask \in BOOLEAN}

PkgHosts ==
    {Host(system, FALSE, {}, FALSE, {}, cmd) :
        system \in {"linux", "darwin"}, cmd \in PkgResults}

InitPkg == InitOn(PkgHosts, {Empty}, {Empty})

SpecPkg == InitPkg /\ [][NextBackup]_vars

(* ---------- packaging and restoring every small Backup Root ----------- *)

RootPaths ==
    {backup_dir \o <<"vscode", "extensions.txt">>,
     backup_dir \o <<"vscode", "snippets", "python.json">>,
     backup_dir \o <<"git", ".gitconfig">>,
     backup_dir \o metadata_name}

\* What a file of the Backup Root may hold: the extension list, or data.
RootData(p) ==
    IF p = extensions_file
    THEN {Stdout["code --list-extensions"], <<"rust-lang.rust-analyzer">>}
    ELSE {Data(p[Len(p)]), <<"older data">>}

Roots ==
    UNION {{f \in [P -> UNION {RootData(p) : p \in P}] : \A p \in P : f[p] \in RootData(p)} :
              P \in SUBSET RootPaths}

RestoreHost == Host("linux", FALSE, {".bashrc"}, FALSE, {}, AllFail)

StartRestore ==
    StartWith(RestoreLines(zips) \cup {Args(TRUE, <<>>, FALSE, FALSE, {})})

NextRestore ==
    \/ StartRestore
    \/ Vscode
    \/ Git
    \/ Ssh
    \/ Packages
    \/ Dotfiles
    \/ Package
    \/ Restore
    \/ Tick
    \/ NewDevice

InitRestore == InitOn({RestoreHost}, Roots, Archives)

SpecRestore == InitRestore /\ [][NextRestore]_vars

(* ============================== claims ================================ *)

Subtree(c) == backup_dir \o <<c>>

LastName(p) == p[Len(p)]

Finished(m) == pc = "idle" /\ exit # "none" /\ mode(args) = m

PackageQueries(h) ==
    {"npm list -g --depth=0 --json", "pip list --format=json", "cargo install --list"}
    \cup (IF h.system = "darwin"
          THEN {"brew list --formula -1", "brew list --cask -1"} ELSE {})

\* Whether the data a category is collected from is there on the host.
SourcePresent(h, c) ==
    CASE c = "vscode" -> vscode_found(h)
      [] c = "git" ->
            \/ {".gitconfig", ".gitignore_global"} \cap h.home # {}
            \/ /\ run_command(h, "git config --global user.name").ok
               /\ run_command(h, "git config --global user.email").ok
      [] c = "ssh" -> h.sshdir
      [] c = "packages" -> \E q \in PackageQueries(h) : run_command(h, q).ok
      [] OTHER -> Range(dotfiles) \cap h.home # {}

\* C1 as stated: after an automatic backup that began with an empty Backup
\* Root, a category's subtree exists if and only if the category's source
\* data is present on the host.
C1_SubtreeIffSource ==
    (Finished("auto") /\ exit = "0" /\ startEmpty)
        => \A c \in Subtrees : (Subtree(c) \in dirs) <=> SourcePresent(host, c)

\* C1 as amended: after such a backup the vscode and ssh subtrees exist if
\* and only if their source directory is present on the host, and the git,
\* packages and dotfiles subtrees exist whatever the host holds.
C1_SubtreeIffSourceDir ==
    (Finished("auto") /\ exit = "0" /\ startEmpty)
        => /\ \A c \in {"vscode", "ssh"} : (Subtree(c) \in dirs) <=> SourcePresent(host, c)
           /\ \A c \in {"git", "packages", "dotfiles"} : Subtree(c) \in dirs

C1_Witness ==
    /\ Finished("auto")
    /\ exit = "0"
    /\ startEmpty
    /\ SourcePresent(host, "vscode")
    /\ ~SourcePresent(host, "ssh")
    /\ \A c \in {"git", "packages", "dotfiles"} : ~SourcePresent(host, c)
    /\ Subtree("vscode") \in dirs

SshTree == Subtree("ssh")

\* The files the SSH collector wrote in this process.
SshWritten == {p \in written : IsPrefix(SshTree, p)}

PubNames(h) == {Name(e) : e \in {x \in h.ssh : x.suffix = ".pub"}}

PrivateNames(h) ==
    {Name(e) : e \in {x \in h.ssh : x.suffix # ".pub" /\ Name(x) \notin Range(safe_files)}}

\* C2: whatever the source SSH directory holds, every file the SSH collector
\* copies is config, known_hosts or a name ending in .pub and holds the
\* source file's data, the only other file it writes is the manifest, and no
\* private key file is in the ssh subtree (also when a copy faults); once the
\* collector has returned, the manifest lists exactly the copied .pub names.
C2_SshOnlySafeFiles ==
    /\ \A p \in SshWritten :
        /\ Len(p) = Len(SshTree) + 1
        /\ \/ LastName(p) = manifest
           \/ /\ LastName(p) \in Range(safe_files) \cup PubNames(host)
              /\ files[p] = Data(LastName(p))
    /\ \A k \in PrivateNames(host) : SshTree \o <<k>> \notin DOMAIN files
    /\ \A p \in DOMAIN files : \A k \in PrivateNames(host) : files[p] # Data(k)
    /\ ("ssh" \in DOMAIN ran /\ ran["ssh"] = "True") =>
        LET copied == {LastName(p) : p \in {q \in SshWritten : LastName(q) # manifest}}
                      \ Range(safe_files)
        IN /\ copied = PubNames(host)
           /\ (SshTree \o <<manifest>> \in written) <=> (copied # {})
           /\ (SshTree \o <<manifest>> \in written) =>
                 /\ Range(files[SshTree \o <<manifest>>]) = copied
                 /\ Len(files[SshTree \o <<manifest>>]) = Cardinality(copied)

C2_Witness ==
    /\ "ssh" \in DOMAIN ran
    /\ ran["ssh"] = "True"
    /\ "id_rsa" \in PrivateNames(host)
    /\ SshTree \o <<"id_rsa.pub">> \in written
    /\ SshTree \o <<"config">> \in written
    /\ SshTree \o <<manifest>> \in written

\* The archive named on the command line of a finished restore.
Restored == args.restore

MetadataFile == backup_dir \o metadata_name

\* C3: when an archive packaged from a Backup Root is restored into an empty
\* Backup Root, every file the packaged root held, the metadata entry aside,
\* exists at the same path with the same contents.
C3_RoundTrip ==
    (Finished("restore") /\ ret = "True" /\ startEmpty /\ Restored \in DOMAIN orig)
        => \A p \in DOMAIN orig[Restored] \ {MetadataFile} :
              p \in DOMAIN files /\ files[p] = orig[Restored][p]

C3_Witness ==
    /\ Finished("restore")
    /\ ret = "True"
    /\ startEmpty
    /\ Restored \in DOMAIN orig
    /\ {MetadataFile, extensions_file,
        backup_dir \o <<"vscode", "snippets", "python.json">>} \subseteq DOMAIN orig[Restored]

InventoryFile(q) ==
    Subtree("packages") \o
    <<CASE q = "npm list -g --depth=0 --json" -> "npm_global.json"
        [] q = "pip list --format=json" -> "pip_packages.json"
        [] q = "cargo install --list" -> "cargo_packages.txt"
        [] q = "brew list --formula -1" -> "brew_formulae.txt"
        [] OTHER -> "brew_casks.txt">>

\* A query succeeded, with parsable output where the output is JSON.
Succeeded(h, q) ==
    /\ run_command(h, q).ok
    /\ q \in {"npm list -g --depth=0 --json", "pip list --format=json"}
          => json_loads(run_command(h, q).out).ok

\* C4: in a run of the package-manager collector that met no I/O fault, the
\* inventory file of each query of this platform is written if and only if
\* that query itself succeeded with parsable output.
C4_QueriesIndependent ==
    ("packages" \in DOMAIN ran /\ ran["packages"] = "True" /\ faults = 0)
        => \A q \in PackageQueries(host) :
              (InventoryFile(q) \in written) <=> Succeeded(host, q)

Collectors == <<"vscode", "git", "ssh", "packages", "dotfiles">>

\* C5: an automatic backup that has ended has called all five collectors and
\* has packaged the archive, whatever each collector's outcome was.
C5_RunContinues ==
    Finished("auto") => (DOMAIN ran = Range(Collectors) /\ exit = "0")

\* The archives the packager wrote to its default destination.
OwnArchives == {a \in DOMAIN zips : IsPrefix(config_dir, a)}

\* C6: there are as many archive files as backup invocations that ran to
\* their end, and an archive file, once there, is not written again.
C6_OneArchivePerBackup ==
    [][/\ Cardinality(OwnArchives') = made'
       /\ \A a \in OwnArchives : a \in OwnArchives' /\ zips'[a] = zips[a]]_vars

\* C7: restore_from_package with an archive path that does not exist returns
\* False, leaves every file and directory under the Backup Root as it was and
\* runs no install command.
C7_MissingArchiveNoChange ==
    [][(pc = "restore" /\ ~path_exists(zips, host, args.restore))
          => /\ ret' = "False"
             /\ files' = files
             /\ dirs' = dirs
             /\ written' = written
             /\ installs' = <<>>]_vars

C7_Witness ==
    /\ Finished("restore")
    /\ ret = "False"
    /\ Restored = missing_path
    /\ extensions_file \in DOMAIN files

\* C8: the restore mode ends with a non-zero exit status when the archive
\* path does not exist, and with exit status 0 otherwise.
C8_RestoreExitStatus ==
    Finished("restore") => ((exit # "0") <=> ~path_exists(zips, host, Restored))

MetadataEntries(a) == {i \in DOMAIN zips[a] : zips[a][i].name = metadata_name}

\* C9: every archive written by create_sync_package holds exactly one entry
\* named metadata.json, the one appended last by that packaging call.
C9_OneMetadataEntry ==
    \A a \in OwnArchives : MetadataEntries(a) = {Len(zips[a])}

\* The extension names in the vscode/extensions.txt entries of an archive.
ListedIn(a) ==
    UNION {Range(extension_lines(zips[a][i].data)) :
              i \in {j \in DOMAIN zips[a] : backup_dir \o zips[a][j].name = extensions_file}}

\* C10: a successful restore, also when no I/O fault ever struck, runs install
\* commands only for extension names listed in vscode/extensions.txt of the
\* archive it restored, and none when the archive has no such entry.
C10_InstallsFromArchive ==
    (Finished("restore") /\ ret = "True" /\ faults = 0)
        => Range(installs) \subseteq {install_command(x) : x \in ListedIn(Restored)}

====
